---- MODULE Spec2Model ----
(***************************************************************************)
(* Model of src/server.js, the "Bordeaux AOC Top 20" server: the SQLite    *)
(* tables wines, admin_overrides and meta, the ingestion paths (seed,      *)
(* file import, manual refresh, daily cron check), the admin override     *)
(* route and the ranking query.                                            *)
(*                                                                         *)
(* Conventions.  A JavaScript or SQL value is a record [t, v]: t is its    *)
(* type tag and v its payload (0 or "" when the tag says it all).          *)
(* Ratings are in tenths (40 is 4.0), adjustment percentages in tenths of  *)
(* a percent (251 is 25.1), adjusted ratings in 1/10000 (44000 is 4.4):    *)
(* the arithmetic is exact decimal arithmetic, not IEEE doubles.  Time is  *)
(* counted in half days, so that dayjs's truncation to whole days shows.   *)
(* The CREATE TABLE statements are modelled as they are meant (the line    *)
(* 49 comment is read as a comment).  Routes are modelled for callers who  *)
(* passed basicAuth; the text filter q and the CSV branch of the import    *)
(* are not modelled.                                                       *)
(***************************************************************************)
EXTENDS Integers, Sequences, FiniteSets, TLC

VARIABLES
  wines,        \* table wines: id -> row
  overrides,    \* table admin_overrides: wine_id -> adjustment_pct
  last_refresh, \* table meta, key 'last_refresh': Null or Num(time)
  last,         \* the last operation: its inputs and what it answered
  checks        \* the due-checks the timer fired together, and their count

vars == <<wines, overrides, last_refresh, last, checks>>

---------------------------------------------------------------------------
(* JavaScript / SQL values *)

Num(n) == [t |-> "number", v |-> n]
NaN == [t |-> "nan", v |-> 0]
Null == [t |-> "null", v |-> 0]
Undef == [t |-> "undefined", v |-> 0]
Str == [t |-> "string", v |-> 0]          \* a non-numeric string such as 'abc'

Txt(s) == [t |-> "string", v |-> s]
TxtNull == [t |-> "null", v |-> ""]
TxtUndef == [t |-> "undefined", v |-> ""]

\* Number(x)
ToNumber(x) ==
  CASE x.t = "number" -> x
    [] x.t = "null" -> Num(0)
    [] OTHER -> NaN

\* sanitizeNumber(n, fallback)
sanitizeNumber(n, fallback) ==
  LET x == ToNumber(n) IN IF x.t = "number" THEN x ELSE fallback

\* a || b on text values: null, undefined and '' are falsy
OrElse(a, b) == IF a.t = "string" /\ a.v # "" THEN a ELSE b

\* ${x} in a template literal
Interpolate(x) ==
  CASE x.t = "string" -> x.v
    [] x.t = "number" -> ToString(x.v)
    [] x.t = "null" -> "null"
    [] OTHER -> "undefined"

\* what better-sqlite3 binds: NaN is stored as NULL, undefined cannot be bound
CanBind(x) == x.t # "undefined"
Bind(x) == IF x.t = "nan" THEN Null ELSE x

\* a ?? b
Coalesce(a, b) == IF a.t \in {"null", "undefined"} THEN b ELSE a

---------------------------------------------------------------------------
(* Bounds and input domains *)

MaxWines == 2          \* rows the wines table may hold

RefreshDays == 75      \* the refresh is due after this many days

\* a raw record as JSON.parse yields it: a missing key reads as undefined
Wine1 ==
  [external_id |-> Txt("x1"), id |-> TxtUndef, name |-> Txt("W1"),
   winery |-> Txt("Estate"), aoc |-> Txt("Pauillac"), vintage |-> Num(2018),
   vivino_rating |-> Num(40), rating |-> Undef, rating_count |-> Num(10),
   reviews |-> Undef, price |-> Num(20), last_source_update |-> Num(0)]

\* the same wine with a new name and score, and an explicit null price
Wine1Renamed ==
  [Wine1 EXCEPT !.name = Txt("W1-renamed"), !.vivino_rating = Num(42),
                !.price = Null]

\* a second wine whose numbers are malformed or missing
Wine2 ==
  [Wine1 EXCEPT !.external_id = Txt("x2"), !.name = Txt("W2"),
                !.vivino_rating = Str, !.rating_count = Undef,
                !.price = Undef]

\* a wine whose external_id is an explicit null
WineNoId ==
  [Wine1 EXCEPT !.external_id = TxtNull, !.name = Txt("W3")]

\* a record the table refuses: name is NOT NULL
WineNoName ==
  [Wine1 EXCEPT !.external_id = Txt("x2"), !.name = TxtNull]

\* the arrays the uploads and the seed file hold
Batches ==
  { <<>>,
    <<Wine1>>,
    <<Wine1Renamed>>,
    <<Wine1, Wine2>>,
    <<WineNoId>>,
    <<Wine1, Wine1Renamed>>,
    <<Wine1Renamed, WineNoName>> }

\* a file on disk (the seed file, an upload): absent, or a parsed array
NoFile == [exists |-> FALSE, items |-> <<>>]
File(items) == [exists |-> TRUE, items |-> items]
Files == {NoFile} \cup {File(b) : b \in Batches}

Times == {0, 150}

---------------------------------------------------------------------------
(* Statements *)

Params ==
  {"external_id", "name", "winery", "aoc", "vintage", "vivino_rating",
   "rating_count", "price", "last_source_update"}

NotNull == {"name", "aoc", "vivino_rating"}

NextId(ws) ==
  IF DOMAIN ws = {} THEN 1
  ELSE (CHOOSE m \in DOMAIN ws : \A i \in DOMAIN ws : i <= m) + 1

\* the row the statement writes: the bound parameters and updated_at
Row(p, now) ==
  [external_id |-> Bind(p.external_id), name |-> Bind(p.name),
   winery |-> Bind(p.winery), aoc |-> Bind(p.aoc),
   vintage |-> Bind(p.vintage), vivino_rating |-> Bind(p.vivino_rating),
   rating_count |-> Bind(p.rating_count), price |-> Bind(p.price),
   last_source_update |-> Bind(p.last_source_update),
   updated_at |-> Num(now)]

\* the statement throws: a parameter cannot be bound, or NOT NULL fails
Refused(p) ==
  \/ \E k \in Params : ~CanBind(p[k])
  \/ \E k \in NotNull : Bind(p[k]).t = "null"

\* INSERT OR REPLACE instead of ON CONFLICT DO UPDATE: the row gets a new id
upsertWineReplace(ws, p, now) ==
  LET row == Row(p, now)
      keep == {i \in DOMAIN ws : row.external_id.t = "null"
                                  \/ ws[i].external_id # row.external_id}
  IN IF Refused(p) THEN [ok |-> FALSE, ws |-> ws]
     ELSE [ok |-> TRUE,
           ws |-> [i \in keep \cup {NextId(ws)} |->
                     IF i \in keep THEN ws[i] ELSE row]]

\* INSERT without ON CONFLICT, on a column that is not UNIQUE
upsertWineAlwaysInsert(ws, p, now) ==
  IF Refused(p) THEN [ok |-> FALSE, ws |-> ws]
  ELSE [ok |-> TRUE,
        ws |-> [i \in DOMAIN ws \cup {NextId(ws)} |->
                  IF i \in DOMAIN ws THEN ws[i] ELSE Row(p, now)]]

\* upsertWine.run(p): [ok, ws], ok FALSE when the statement throws
upsertWine(ws, p, now) ==
  LET row == Row(p, now)
      hit == {i \in DOMAIN ws : row.external_id.t # "null"
                                 /\ ws[i].external_id = row.external_id}
  IN IF Refused(p) THEN [ok |-> FALSE, ws |-> ws]
     ELSE IF hit # {}
       THEN [ok |-> TRUE,
             ws |-> [i \in DOMAIN ws |-> IF i \in hit THEN row ELSE ws[i]]]
     ELSE [ok |-> TRUE,
           ws |-> [i \in DOMAIN ws \cup {NextId(ws)} |->
                     IF i \in DOMAIN ws THEN ws[i] ELSE row]]

\* the body of db.transaction: upsert the items in order, stop at a throw
RECURSIVE RunAll(_, _, _)
RunAll(ws, items, now) ==
  IF items = <<>> THEN [ok |-> TRUE, ws |-> ws]
  ELSE IF Len(items) = 1 THEN upsertWine(ws, items[1], now)
  ELSE LET half == Len(items) \div 2
           r == RunAll(ws, SubSeq(items, 1, half), now)
       IN IF r.ok THEN RunAll(r.ws, SubSeq(items, half + 1, Len(items)), now)
          ELSE r

\* the loop without db.transaction: what was upserted before the throw stays
TransactionNoRollback(ws, items, now) == RunAll(ws, items, now)

\* db.transaction(fn)(items): COMMIT, or ROLLBACK when fn throws
Transaction(ws, items, now) ==
  LET r == RunAll(ws, items, now)
  IN IF r.ok THEN r ELSE [ok |-> FALSE, ws |-> ws]

\* upsertOverride.run(wine_id, pct)
upsertOverride(os, wine_id, pct) ==
  [i \in DOMAIN os \cup {wine_id} |-> IF i = wine_id THEN pct ELSE os[i]]

---------------------------------------------------------------------------
(* Ingestion *)

\* items = arr.map(w => ({...})) of the JSON branch of the import
ImportItem(w, now) ==
  [external_id |->
     OrElse(w.external_id,
            OrElse(w.id,
                   Txt(Interpolate(w.name) \o "|" \o Interpolate(w.vintage)
                       \o "|" \o Interpolate(w.aoc)))),
   name |-> w.name,
   winery |-> w.winery,
   aoc |-> w.aoc,
   vintage |-> w.vintage,
   vivino_rating |-> sanitizeNumber(Coalesce(w.vivino_rating, w.rating), Num(0)),
   rating_count |-> sanitizeNumber(Coalesce(w.rating_count, w.reviews), Num(0)),
   price |-> IF w.price.t \in {"null", "undefined"} THEN Null
             ELSE ToNumber(w.price),
   last_source_update |-> Num(now)]

\* the object refreshVivinoData hands to upsertWine.run
RefreshItem(w, now) ==
  [external_id |-> w.external_id,
   name |-> w.name,
   winery |-> w.winery,
   aoc |-> w.aoc,
   vintage |-> w.vintage,
   vivino_rating |-> sanitizeNumber(w.vivino_rating, Num(0)),
   rating_count |-> sanitizeNumber(w.rating_count, Num(0)),
   price |-> sanitizeNumber(w.price, Null),
   last_source_update |-> Num(now)]

ImportItems(raw, now) == [i \in 1..Len(raw) |-> ImportItem(raw[i], now)]
RefreshItems(raw, now) == [i \in 1..Len(raw) |-> RefreshItem(raw[i], now)]

\* req.query of GET /api/wines; `all` is TRUE when the parameter is given
NoQuery ==
  [aoc |-> TxtUndef, minRating |-> Undef, maxRating |-> Undef,
   limit |-> Undef, offset |-> Undef, all |-> FALSE]

\* what an operation leaves in `last`
Done(op, ok, status, file, now, wine_id, pct) ==
  [op |-> op, ok |-> ok, status |-> status, file |-> file, now |-> now,
   wine_id |-> wine_id, pct |-> pct, query |-> NoQuery, rows |-> <<>>]

\* the transaction of refreshVivinoData(); a missing file is skipped
Refreshed(file, now) ==
  IF file.exists
    THEN Transaction(wines, RefreshItems(file.items, now), now)
    ELSE [ok |-> FALSE, ws |-> wines]

\* refreshVivinoData(): a failure is caught and logged
refreshVivinoData(file, now) ==
  LET r == Refreshed(file, now)
  IN /\ wines' = r.ws
     /\ last_refresh' = IF r.ok THEN Num(now) ELSE last_refresh

\* dayjs().diff(lastIso, 'day'): whole days, time being in half days
DayDiff(now, then) == (now - then) \div 2

\* the inline demo seed
Demo(n, aoc, vintage, rating, count, price, now) ==
  [external_id |-> Txt("demo-" \o ToString(n)),
   name |-> Txt("Chateau Demo " \o ToString(n)),
   winery |-> Txt("Demo Estate"), aoc |-> Txt(aoc), vintage |-> Num(vintage),
   vivino_rating |-> Num(rating), rating_count |-> Num(count),
   price |-> Num(price), last_source_update |-> Num(now)]

DemoWines(now) ==
  << Demo(1, "Saint-Estephe", 2018, 42, 1200, 35, now),
     Demo(2, "Pauillac", 2019, 45, 980, 75, now),
     Demo(3, "Margaux", 2020, 40, 450, 52, now),
     Demo(4, "Saint-Julien", 2016, 43, 2100, 60, now),
     Demo(5, "Pessac-Leognan", 2017, 41, 800, 40, now) >>

\* ensureSeed() at start-up: the seed file's records as they are, or the demo
ensureSeed(file, now) ==
  /\ DOMAIN wines = {}
  /\ LET r == Transaction(wines,
                          IF file.exists THEN file.items ELSE DemoWines(now),
                          now)
     IN /\ wines' = r.ws
        /\ last_refresh' = IF r.ok THEN Num(now) ELSE last_refresh
        /\ last' = Done("seed", r.ok, IF r.ok THEN 200 ELSE 500, file, now,
                        Null, Null)
  /\ UNCHANGED overrides

\* POST /api/admin/import
Import(file, now) ==
  /\ IF ~file.exists
       THEN /\ UNCHANGED <<wines, last_refresh>>
            /\ last' = Done("import", FALSE, 400, file, now, Null, Null)
       ELSE LET r == Transaction(wines, ImportItems(file.items, now), now)
            IN /\ wines' = r.ws
               /\ last_refresh' = IF r.ok THEN Num(now) ELSE last_refresh
               /\ last' = Done("import", r.ok, IF r.ok THEN 200 ELSE 500,
                               file, now, Null, Null)
  /\ UNCHANGED overrides

\* POST /api/admin/refresh: answers ok whatever refreshVivinoData did
Refresh(file, now) ==
  /\ refreshVivinoData(file, now)
  /\ last' = Done("refresh", Refreshed(file, now).ok, 200, file, now,
                  Null, Null)
  /\ UNCHANGED overrides

\* the callback with daysSince > 75 for daysSince >= 75
CronLate(file, now) ==
  LET daysSince == IF last_refresh.t = "null" THEN 9999
                   ELSE DayDiff(now, last_refresh.v)
  IN /\ IF daysSince > RefreshDays
          THEN refreshVivinoData(file, now)
          ELSE UNCHANGED <<wines, last_refresh>>
     /\ last' = Done("cron",
                     daysSince > RefreshDays /\ Refreshed(file, now).ok,
                     IF daysSince > RefreshDays THEN 200 ELSE 204,
                     file, now, Null, Null)
     /\ UNCHANGED overrides

\* the callback without the look at last_refresh
CronAlways(file, now) ==
  /\ refreshVivinoData(file, now)
  /\ last' = Done("cron", Refreshed(file, now).ok, 200, file, now, Null, Null)
  /\ UNCHANGED overrides

\* the cron.schedule callback; status 204 stands for the log 'not due yet'
Cron(file, now) ==
  LET daysSince == IF last_refresh.t = "null" THEN 9999
                   ELSE DayDiff(now, last_refresh.v)
  IN /\ IF daysSince >= RefreshDays
          THEN refreshVivinoData(file, now)
          ELSE UNCHANGED <<wines, last_refresh>>
     /\ last' = Done("cron",
                     daysSince >= RefreshDays /\ Refreshed(file, now).ok,
                     IF daysSince >= RefreshDays THEN 200 ELSE 204,
                     file, now, Null, Null)
     /\ UNCHANGED overrides

---------------------------------------------------------------------------
(* The adjusted rating *)

\* x || 0
OrZero(x) ==
  IF x.t \in {"undefined", "null", "nan"} \/ (x.t = "number" /\ x.v = 0)
    THEN Num(0) ELSE x

\* adjustedRating(row), in 1/10000
adjustedRating(row) ==
  LET adj == sanitizeNumber(OrZero(row.adjustment_pct), Num(0)).v
      base == sanitizeNumber(OrZero(row.vivino_rating), Num(0)).v
      factor == 1000 + (IF adj > 250 THEN 250 ELSE IF adj < -250 THEN -250 ELSE adj)
  IN base * factor

\* the number a stored value counts for in SQL arithmetic
NumVal(x) == IF x.t = "number" THEN x.v ELSE 0

\* the SQL expression without the CASE that keeps the percentage in range
AdjustedRatingUnclamped(rating, pct) == NumVal(rating) * (1000 + pct)

\* the SQL expression adjusted_rating, in 1/10000
AdjustedRating(rating, pct) ==
  NumVal(rating)
    * (1000 + (IF pct > 250 THEN 250 ELSE IF pct < -250 THEN -250 ELSE pct))

\* a row of the SELECT: w.*, adjustment_pct, adjusted_rating; IFNULL(
\* o.adjustment_pct, 0) of the LEFT JOIN is 0 for a wine without override
Joined(ws, os, i) ==
  LET pct == IF i \in DOMAIN os THEN os[i] ELSE 0
  IN [id |-> i, external_id |-> ws[i].external_id, name |-> ws[i].name,
      winery |-> ws[i].winery, aoc |-> ws[i].aoc,
      vintage |-> ws[i].vintage, vivino_rating |-> ws[i].vivino_rating,
      rating_count |-> ws[i].rating_count, price |-> ws[i].price,
      last_source_update |-> ws[i].last_source_update,
      updated_at |-> ws[i].updated_at,
      adjustment_pct |-> pct,
      adjusted_rating |-> AdjustedRating(ws[i].vivino_rating, pct)]

\* the row of wine i as the tables are
JoinRow(i) == Joined(wines, overrides, i)

---------------------------------------------------------------------------
(* Admin override *)

\* the route with the range check replaced by clamping
SetOverrideClamp(wine_id, adjustment_pct) ==
  LET pct == ToNumber(adjustment_pct)
      status ==
        IF wine_id.t = "undefined" \/ wine_id.v = 0
             \/ adjustment_pct.t = "undefined" THEN 400
        ELSE IF pct.t # "number" THEN 400
        ELSE IF wine_id.v \notin DOMAIN wines THEN 404
        ELSE 200
      clamped == IF pct.v > 250 THEN 250 ELSE IF pct.v < -250 THEN -250 ELSE pct.v
  IN /\ overrides' = IF status = 200
                       THEN upsertOverride(overrides, wine_id.v, clamped)
                       ELSE overrides
     /\ last' = Done("override", status = 200, status, NoFile, last.now,
                     wine_id, adjustment_pct)
     /\ UNCHANGED <<wines, last_refresh>>

\* the route without the getWineById lookup
SetOverrideNoLookup(wine_id, adjustment_pct) ==
  LET pct == ToNumber(adjustment_pct)
      status ==
        IF wine_id.t = "undefined" \/ wine_id.v = 0
             \/ adjustment_pct.t = "undefined" THEN 400
        ELSE IF pct.t # "number" THEN 400
        ELSE IF pct.v < -250 \/ pct.v > 250 THEN 400
        ELSE 200
  IN /\ overrides' = IF status = 200
                       THEN upsertOverride(overrides, wine_id.v, pct.v)
                       ELSE overrides
     /\ last' = Done("override", status = 200, status, NoFile, last.now,
                     wine_id, adjustment_pct)
     /\ UNCHANGED <<wines, last_refresh>>

\* the route without the check of the range
SetOverrideNoRange(wine_id, adjustment_pct) ==
  LET pct == ToNumber(adjustment_pct)
      status ==
        IF wine_id.t = "undefined" \/ wine_id.v = 0
             \/ adjustment_pct.t = "undefined" THEN 400
        ELSE IF pct.t # "number" THEN 400
        ELSE IF wine_id.v \notin DOMAIN wines THEN 404
        ELSE 200
  IN /\ overrides' = IF status = 200
                       THEN upsertOverride(overrides, wine_id.v, pct.v)
                       ELSE overrides
     /\ last' = Done("override", status = 200, status, NoFile, last.now,
                     wine_id, adjustment_pct)
     /\ UNCHANGED <<wines, last_refresh>>

\* POST /api/admin/override
SetOverride(wine_id, adjustment_pct) ==
  LET pct == ToNumber(adjustment_pct)
      status ==
        IF wine_id.t = "undefined" \/ wine_id.v = 0
             \/ adjustment_pct.t = "undefined" THEN 400
        ELSE IF pct.t # "number" THEN 400
        ELSE IF pct.v < -250 \/ pct.v > 250 THEN 400
        ELSE IF wine_id.v \notin DOMAIN wines THEN 404
        ELSE 200
  IN /\ overrides' = IF status = 200
                       THEN upsertOverride(overrides, wine_id.v, pct.v)
                       ELSE overrides
     /\ last' = [Done("override", status = 200, status, NoFile, last.now,
                      wine_id, adjustment_pct)
                  EXCEPT !.rows = IF status = 200
                                    THEN <<Joined(wines, overrides', wine_id.v)>>
                                    ELSE <<>>]
     /\ UNCHANGED <<wines, last_refresh>>

---------------------------------------------------------------------------
(* Ranking *)

AocLimit == 20         \* default window with an aoc filter
GlobalLimit == 100     \* default window without one

\* a bound of the WHERE clause: Number(bound) is bound, and NaN binds as NULL,
\* to which nothing compares
AtLeast(x, bound) == ToNumber(bound).t = "number" /\ x >= ToNumber(bound).v
AtMost(x, bound) == ToNumber(bound).t = "number" /\ x <= ToNumber(bound).v

\* the bounds put on the rating as the source gave it
WhereBaseRating(r, q) ==
  /\ (q.aoc.t = "string" /\ q.aoc.v # "") => r.aoc = q.aoc
  /\ q.minRating.t # "undefined" =>
        AtLeast(1000 * NumVal(r.vivino_rating), q.minRating)
  /\ q.maxRating.t # "undefined" =>
        AtMost(1000 * NumVal(r.vivino_rating), q.maxRating)

\* the WHERE clause; a parameter that is not given adds no condition
Where(r, q) ==
  /\ (q.aoc.t = "string" /\ q.aoc.v # "") => r.aoc = q.aoc
  /\ q.minRating.t # "undefined" => AtLeast(r.adjusted_rating, q.minRating)
  /\ q.maxRating.t # "undefined" => AtMost(r.adjusted_rating, q.maxRating)

\* SQLite's order of values: NULL, then numbers, then text
TypeRank(x) == CASE x.t = "null" -> 0 [] x.t = "number" -> 1 [] OTHER -> 2
SqlLess(x, y) ==
  \/ TypeRank(x) < TypeRank(y)
  \/ TypeRank(x) = TypeRank(y) /\ x.v < y.v

\* the ORDER BY without NULLS LAST: in ascending order NULL comes first
BeforeNullsFirst(a, b) ==
  \/ a.adjusted_rating > b.adjusted_rating
  \/ /\ a.adjusted_rating = b.adjusted_rating
     /\ \/ SqlLess(b.rating_count, a.rating_count)
        \/ /\ a.rating_count = b.rating_count
           /\ SqlLess(a.price, b.price)

\* ORDER BY adjusted_rating DESC, rating_count DESC, price ASC NULLS LAST:
\* row a sorts strictly before row b
Before(a, b) ==
  \/ a.adjusted_rating > b.adjusted_rating
  \/ /\ a.adjusted_rating = b.adjusted_rating
     /\ \/ SqlLess(b.rating_count, a.rating_count)
        \/ /\ a.rating_count = b.rating_count
           /\ a.price.t # "null"
           /\ (b.price.t = "null" \/ SqlLess(a.price, b.price))

\* The orders the sort may give: rows that tie come in any order.  ranked
\* pairs each row with the number of rows that sort strictly before it; the
\* rows that tie share that number c and fill the places c+1 .. c+(how many
\* they are), each in any of them.
Ties(ranked, p) == {x \in ranked : x[2] = p[2]}

RECURSIVE Placements(_, _, _)
Placements(ranked, tied, taken) ==
  IF tied = {} THEN {{}}
  ELSE LET p == CHOOSE x \in tied : TRUE
           free == {k \in (p[2] + 1)..(p[2] + Cardinality(Ties(ranked, p))) :
                      k \notin taken}
       IN UNION { {{<<p[1], k>>} \cup rest :
                     rest \in Placements(ranked, tied \ {p}, taken \cup {k})} :
                  k \in free }

Orderings(ranked) ==
  LET tied == {p \in ranked : Ties(ranked, p) # {p}}
      alone == {<<p[1], p[2] + 1>> : p \in ranked \ tied}
  IN { [k \in 1..Cardinality(ranked) |->
          (CHOOSE x \in alone \cup placed : x[2] = k)[1]] :
       placed \in Placements(ranked, tied, {}) }

Sorted(rows) ==
  Orderings({<<r, Cardinality({x \in rows : Before(x, r)})>> : r \in rows})

\* one default window, whether an aoc is given or not
LimOneDefault(q) ==
  IF q.all THEN Null
  ELSE IF q.limit.t = "undefined" THEN Num(GlobalLimit)
  ELSE ToNumber(q.limit)

\* lim = all ? null : Number(limit || (aoc ? 20 : 100))
Lim(q) ==
  IF q.all THEN Null
  ELSE IF q.limit.t = "undefined"
    THEN Num(IF q.aoc.t = "string" /\ q.aoc.v # "" THEN AocLimit ELSE GlobalLimit)
  ELSE ToNumber(q.limit)

\* LIMIT lim OFFSET off, added when lim is truthy; a negative LIMIT is none,
\* a negative OFFSET is 0
Page(s, q) ==
  LET lim == Lim(q)
      off == IF q.offset.t = "number" /\ q.offset.v > 0 THEN q.offset.v ELSE 0
  IN IF lim.t # "number" \/ lim.v = 0 THEN s
     ELSE IF lim.v < 0 THEN SubSeq(s, off + 1, Len(s))
     ELSE SubSeq(s, off + 1, IF off + lim.v < Len(s) THEN off + lim.v ELSE Len(s))

\* GET /api/wines
Query(q) ==
  /\ \E s \in Sorted({r \in {JoinRow(i) : i \in DOMAIN wines} : Where(r, q)}) :
       last' = [Done("query", TRUE, 200, NoFile, last.now, Null, Null)
                  EXCEPT !.query = q, !.rows = Page(s, q)]
  /\ UNCHANGED <<wines, overrides, last_refresh>>

---------------------------------------------------------------------------
(* The server *)

\* no due-check is waiting to run
NoChecks ==
  [fired |-> 0, left |-> 0, now |-> 0, file |-> NoFile, before |-> Null,
   calls |-> 0, ingested |-> 0]

Init ==
  /\ wines = <<>>
  /\ overrides = <<>>
  /\ last_refresh = Null
  /\ last = Done("start", TRUE, 200, NoFile, 0, Null, Null)
  /\ checks = NoChecks

Later(now) == now >= last.now
Fits == Cardinality(DOMAIN wines') <= MaxWines

\* the admin sets a valid adjustment on one of the first wines
SomeIds == {Num(1), Num(2)}
SomePcts == {Num(100)}

Next ==
  \/ \E f \in Files, now \in Times :
       Later(now) /\ ensureSeed(f, now) /\ Fits /\ UNCHANGED checks
  \/ \E f \in Files, now \in Times :
       Later(now) /\ Import(f, now) /\ Fits /\ UNCHANGED checks
  \/ \E f \in Files, now \in Times :
       Later(now) /\ Refresh(f, now) /\ Fits /\ UNCHANGED checks
  \/ \E f \in Files, now \in Times :
       Later(now) /\ Cron(f, now) /\ Fits /\ UNCHANGED checks
  \/ \E id \in SomeIds, pct \in SomePcts :
       SetOverride(id, pct) /\ UNCHANGED checks

Spec == Init /\ [][Next]_vars

\* the admin route on a small catalog, with every kind of request body
WineIds == {Undef, Num(0), Num(1), Num(2), Num(MaxWines + 1)}
Pcts ==
  {Undef, Null, Str, Num(-251), Num(-250), Num(100), Num(250), Num(251)}
OverrideFiles == {File(<<Wine1>>), File(<<Wine1, Wine2>>)}

NextOverride ==
  \/ \E f \in OverrideFiles : Import(f, 0) /\ Fits /\ UNCHANGED checks
  \/ \E id \in WineIds, pct \in Pcts :
       SetOverride(id, pct) /\ UNCHANGED checks

SpecOverride == Init /\ [][NextOverride]_vars

\* every operation that writes, with every kind of request body for the
\* admin route
AllFiles ==
  { NoFile, File(<<Wine1>>), File(<<Wine1, Wine2>>),
    File(<<Wine1Renamed, WineNoName>>) }

NextAll ==
  \/ \E f \in AllFiles, now \in Times :
       Later(now) /\ ensureSeed(f, now) /\ Fits /\ UNCHANGED checks
  \/ \E f \in AllFiles, now \in Times :
       Later(now) /\ Import(f, now) /\ Fits /\ UNCHANGED checks
  \/ \E f \in AllFiles, now \in Times :
       Later(now) /\ Refresh(f, now) /\ Fits /\ UNCHANGED checks
  \/ \E f \in AllFiles, now \in Times :
       Later(now) /\ Cron(f, now) /\ Fits /\ UNCHANGED checks
  \/ \E id \in WineIds, pct \in Pcts :
       SetOverride(id, pct) /\ UNCHANGED checks

SpecAll == Init /\ [][NextAll]_vars

\* the daily check and the manual refresh, at times around the 75th day
SchedTimes == {0, 1, 148, 149, 150, 151}
SchedFiles ==
  { NoFile, File(<<>>), File(<<Wine1>>), File(<<Wine2>>),
    File(<<Wine1Renamed, WineNoName>>) }

NextSched ==
  \/ \E f \in SchedFiles, now \in SchedTimes :
       Later(now) /\ Cron(f, now) /\ Fits /\ UNCHANGED checks
  \/ \E f \in SchedFiles, now \in SchedTimes :
       Later(now) /\ Refresh(f, now) /\ Fits /\ UNCHANGED checks

SpecSched == Init /\ [][NextSched]_vars

\* Due-checks fired together.  The callback is synchronous from getMeta to
\* setMeta and the process has one thread, so callbacks fired at one instant
\* run one after the other, each as a whole.
MaxChecks == 3         \* due-checks fired at one instant

\* the timer fires n due-checks at the instant now
Fire(n, file, now) ==
  /\ checks.left = 0
  /\ checks' = [fired |-> n, left |-> n, now |-> now, file |-> file,
                before |-> last_refresh, calls |-> 0, ingested |-> 0]
  /\ UNCHANGED <<wines, overrides, last_refresh, last>>

\* one of the callbacks that wait runs; calls counts those that went into
\* refreshVivinoData(), ingested those whose transaction was committed
Check ==
  /\ checks.left > 0
  /\ Cron(checks.file, checks.now)
  /\ checks' = [checks EXCEPT
                  !.left = @ - 1,
                  !.calls = @ + (IF last'.status = 200 THEN 1 ELSE 0),
                  !.ingested = @ + (IF last'.ok THEN 1 ELSE 0)]

NextFlight ==
  \/ \E n \in 1..MaxChecks, f \in SchedFiles, now \in SchedTimes :
       Later(now) /\ Fire(n, f, now)
  \/ Check /\ Fits

SpecFlight == Init /\ [][NextFlight]_vars

\* the ranking over catalogs larger than the default windows
SmallCatalog == 7      \* wines of the small catalog
Excess == 2            \* wines beyond the global window in the large one

\* four wines in a row share a rating and two in a row the reviews; of two
\* that tie on both, one has no price, or both have one, the same for wines
\* 2 and 3
CatalogWine(i) ==
  [Wine1 EXCEPT
     !.external_id = Txt("c" \o ToString(i)),
     !.name = Txt("C" \o ToString(i)),
     !.aoc = Txt(IF i % 2 = 1 THEN "Margaux" ELSE "Pauillac"),
     !.vivino_rating = Num(30 + ((i \div 4) % 3)),
     !.rating_count = Num(i \div 2),
     !.price = IF i \in {2, 3} THEN Num(20)
               ELSE IF i % 4 = 0 THEN Null
               ELSE Num(20 + (i % 4))]

Catalog(n) == [i \in 1..n |-> CatalogWine(i)]
CatalogSizes == {SmallCatalog, GlobalLimit + Excess}

RankOverrides == {<<Num(1), Num(100)>>, <<Num(4), Num(-250)>>}

Windows ==
  { [NoQuery EXCEPT !.aoc = a, !.limit = l, !.all = x] :
      a \in {TxtUndef, Txt("Margaux")}, l \in {Undef, Num(2), Num(0)},
      x \in BOOLEAN }
  \cup { [NoQuery EXCEPT !.limit = l, !.offset = Num(1)] : l \in {Undef, Num(2)} }

Ranges ==
  { [NoQuery EXCEPT !.minRating = b[1], !.maxRating = b[2], !.all = TRUE] :
      b \in { <<Num(31000), Undef>>, <<Undef, Num(31000)>>,
              <<Num(31000), Num(32000)>>, <<Num(31000), Num(33000)>> } }
  \cup { [NoQuery EXCEPT !.aoc = Txt("Pauillac"), !.minRating = Num(31000),
                         !.maxRating = Num(32000)] }

Queries == Windows \cup Ranges

NextRank ==
  \/ \E n \in CatalogSizes :
       DOMAIN wines = {} /\ Import(File(Catalog(n)), 0) /\ UNCHANGED checks
  \/ ensureSeed(NoFile, 0) /\ UNCHANGED checks
  \/ \E o \in RankOverrides : SetOverride(o[1], o[2]) /\ UNCHANGED checks
  \/ \E q \in Queries : Query(q) /\ UNCHANGED checks

SpecRank == Init /\ [][NextRank]_vars

\* the adjusted rating: as the queries and the admin route return it for
\* the stored wines, and as the two expressions of it compute it for ratings
\* and percentages in and out of range
ScoreRatings == {Num(0), Num(10), Num(30), Num(42), Num(45), Num(50)}
ScorePcts ==
  { Num(p) : p \in {-300, -260, -251, -250, -249, -100, -1, 0, 1, 100, 249,
                    250, 251, 260, 300} } \cup {Null, Undef}
ScoreFiles ==
  { File(Catalog(2)),
    File(<<[CatalogWine(1) EXCEPT !.vivino_rating = Num(42)]>>) }

\* adjustedRating(row) and the SQL expression, on one row
Score(rating, pct) ==
  /\ last' = [Done("score", TRUE, 200, NoFile, last.now, Null, pct)
               EXCEPT !.rows =
                 << [vivino_rating |-> rating, adjustment_pct |-> pct,
                     adjusted_rating |->
                       adjustedRating([vivino_rating |-> rating,
                                       adjustment_pct |-> pct]),
                     sql |-> AdjustedRating(rating, NumVal(pct))] >>]
  /\ UNCHANGED <<wines, overrides, last_refresh>>

NextScore ==
  \/ \E f \in ScoreFiles : Import(f, 0) /\ Fits /\ UNCHANGED checks
  \/ \E id \in SomeIds, pct \in {Num(-250), Num(0), Num(100), Num(260)} :
       SetOverride(id, pct) /\ UNCHANGED checks
  \/ \E q \in {NoQuery, [NoQuery EXCEPT !.all = TRUE]} :
       Query(q) /\ UNCHANGED checks
  \/ \E rating \in ScoreRatings, pct \in ScorePcts :
       Score(rating, pct) /\ UNCHANGED checks

SpecScore == Init /\ [][NextScore]_vars

---------------------------------------------------------------------------
(* Properties of the ingestion *)

IngestOps == {"seed", "import", "refresh", "cron"}

\* the records an ingestion handed to upsertWine
Items(l) ==
  CASE l.op = "import" -> ImportItems(l.file.items, l.now)
    [] l.op = "seed" -> l.file.items
    [] OTHER -> RefreshItems(l.file.items, l.now)

\* row r holds the source-derived fields of item p
Holds(r, p) ==
  /\ r.name = p.name /\ r.winery = p.winery /\ r.aoc = p.aoc
  /\ r.vintage = p.vintage
  /\ r.vivino_rating = Bind(p.vivino_rating)
  /\ r.rating_count = Bind(p.rating_count)
  /\ r.price = Bind(p.price)

\* item k is the last of its external_id in the batch
LastOfKey(items, k) ==
  \A j \in (k + 1)..Len(items) : items[j].external_id # items[k].external_id

\* C1: an ingestion (seed, import, refresh, cron) leaves every override as it
\* was; every wine keeps its id and external_id; and a wine whose external_id
\* a committed batch carries holds that record's source-derived fields.
C1_IngestionKeepsOverrides ==
  [][ last'.op \in IngestOps =>
        /\ overrides' = overrides
        /\ \A i \in DOMAIN wines :
             /\ i \in DOMAIN wines'
             /\ wines'[i].external_id = wines[i].external_id
             /\ last'.ok =>
                  \A k \in 1..Len(Items(last')) :
                    ( /\ Items(last')[k].external_id = wines[i].external_id
                      /\ wines[i].external_id.t # "null"
                      /\ LastOfKey(Items(last'), k) )
                    => Holds(wines'[i], Items(last')[k])
    ]_vars

\* the spec's scenario: W1 is imported, adjusted by 10 %, then renamed by a
\* second import; the override is still 10 %
C1_Witness ==
  /\ last.op = "import" /\ last.ok
  /\ last.file = File(<<Wine1Renamed>>)
  /\ 1 \in DOMAIN wines /\ 1 \in DOMAIN overrides
  /\ wines[1].name = Txt("W1-renamed")
  /\ wines[1].vivino_rating = Num(42)
  /\ overrides[1] = 100

\* no two rows hold the same external_id (NULL is no external_id)
UniqueExternalId ==
  \A i, j \in DOMAIN wines :
    (i # j /\ wines[i].external_id.t # "null")
      => wines[i].external_id # wines[j].external_id

\* the external_ids the table holds
Known(ws) == {ws[i].external_id : i \in DOMAIN ws} \ {TxtNull}

\* C2: in every reachable state no two wines share an external_id, and a
\* committed ingestion adds exactly one row per external_id the table did not
\* hold: a batch of known external_ids leaves the number of rows unchanged.
C2_ExternalIdUnique ==
  /\ []UniqueExternalId
  /\ [][ (last'.op \in IngestOps /\ last'.ok) =>
           LET new == { k \in 1..Len(Items(last')) :
                          Items(last')[k].external_id \notin Known(wines) }
           IN /\ (new = {}) => Cardinality(DOMAIN wines') = Cardinality(DOMAIN wines)
              /\ Known(wines') =
                   Known(wines) \cup
                     ({Items(last')[k].external_id : k \in new} \ {TxtNull})
        ]_vars

\* x1 was ingested, then a refresh brought x1 twice more: still one row
C2_Witness ==
  /\ last.op = "refresh" /\ last.ok
  /\ last.file = File(<<Wine1, Wine1Renamed>>)
  /\ last.now = 150
  /\ last_refresh = Num(150)
  /\ DOMAIN wines = {1}
  /\ wines[1].updated_at = Num(150)
  /\ wines[1].name = Txt("W1-renamed")

\* a row without its timestamps
Content(r) ==
  [external_id |-> r.external_id, name |-> r.name, winery |-> r.winery,
   aoc |-> r.aoc, vintage |-> r.vintage, vivino_rating |-> r.vivino_rating,
   rating_count |-> r.rating_count, price |-> r.price]

\* two tables hold the same ids with the same field values, timestamps apart
SameContent(ws1, ws2) ==
  /\ DOMAIN ws1 = DOMAIN ws2
  /\ \A i \in DOMAIN ws1 : Content(ws1[i]) = Content(ws2[i])

\* C8: ingestion is idempotent: when a batch was just ingested and the same
\* batch is ingested again by the same path, the wines keep their ids and
\* field values (updated_at and last_source_update apart) and the overrides
\* are the same.
C8_IngestTwiceSameAsOnce ==
  [][ ( /\ last.op \in IngestOps /\ last.ok
        /\ last'.op = last.op /\ last'.file = last.file )
      => (SameContent(wines, wines') /\ overrides' = overrides)
    ]_vars

\* a record of the batch that upsertWine refuses, stated on the record
Unacceptable(p) ==
  \/ \E k \in Params : p[k].t = "undefined"
  \/ p.name.t = "null" \/ p.aoc.t = "null"
  \/ p.vivino_rating.t \in {"null", "nan"}

\* C9: a batch is all or nothing: an ingestion of a batch one of whose records
\* is refused leaves the wines and last_refresh as they were; last_refresh
\* changes only in a step that applied every record of the batch, each being
\* then a row of the table.
C9_BatchAllOrNothing ==
  [][ (last'.op \in IngestOps /\ last'.file.exists) =>
        /\ (\E k \in 1..Len(Items(last')) : Unacceptable(Items(last')[k]))
             => (wines' = wines /\ last_refresh' = last_refresh /\ ~last'.ok)
        /\ (last_refresh' # last_refresh) =>
             /\ last_refresh' = Num(last'.now)
             /\ \A k \in 1..Len(Items(last')) :
                  \E i \in DOMAIN wines' :
                    /\ wines'[i].external_id = Items(last')[k].external_id
                    /\ LastOfKey(Items(last'), k)
                         => Holds(wines'[i], Items(last')[k])
    ]_vars

\* an import whose second record is refused after the first was upserted:
\* the first record's new name is not in the table, last_refresh is the old one
C9_Witness ==
  /\ last.op = "import" /\ ~last.ok /\ last.status = 500
  /\ last.file = File(<<Wine1Renamed, WineNoName>>)
  /\ last.now = 150
  /\ last_refresh = Num(0)
  /\ DOMAIN wines = {1}
  /\ wines[1].name = Txt("W1")

---------------------------------------------------------------------------
(* Properties of the admin override *)

\* the request names a wine of the table
NamesWine(l) == l.wine_id.t = "number" /\ l.wine_id.v \in DOMAIN wines

\* the request names a wine id that no row has
NamesNoWine(l) ==
  l.wine_id.t = "number" /\ l.wine_id.v # 0 /\ l.wine_id.v \notin DOMAIN wines

InRange(l) == l.pct.t = "number" /\ l.pct.v >= -250 /\ l.pct.v <= 250

\* C3: on an existing wine, an adjustment outside [-25, 25] is answered 400
\* and changes nothing; one within [-25, 25], bounds included, is answered 200
\* and becomes the wine's stored override, as given.
C3_OverrideRange ==
  [][ (last'.op = "override" /\ NamesWine(last') /\ last'.pct.t = "number") =>
        /\ wines' = wines /\ last_refresh' = last_refresh
        /\ IF InRange(last')
             THEN /\ last'.status = 200
                  /\ DOMAIN overrides' = DOMAIN overrides \cup {last'.wine_id.v}
                  /\ overrides'[last'.wine_id.v] = last'.pct.v
                  /\ \A i \in DOMAIN overrides :
                       i # last'.wine_id.v => overrides'[i] = overrides[i]
             ELSE /\ last'.status = 400
                  /\ overrides' = overrides
    ]_vars

\* wine 1 holds exactly 25 %, and 25.1 % was then refused
C3_Witness ==
  /\ last.op = "override" /\ last.status = 400
  /\ last.wine_id = Num(1) /\ last.pct = Num(251)
  /\ 1 \in DOMAIN wines /\ 1 \in DOMAIN overrides
  /\ overrides[1] = 250

\* C4 as claimed: a request naming a wine id that no row has is answered 404
\* and changes nothing.
C4_UnknownWineNotFound ==
  [][ (last'.op = "override" /\ NamesNoWine(last')) =>
        /\ last'.status = 404
        /\ UNCHANGED <<wines, overrides, last_refresh>>
    ]_vars

\* C4 amended: a request naming a wine id that no row has changes nothing; it
\* is answered 404 when the adjustment is a number within [-25, 25] (null
\* counting as 0), and 400 when the adjustment is missing, not a number or
\* out of range, the body being validated before the wine is looked up.
C4_UnknownWineFails ==
  [][ (last'.op = "override" /\ NamesNoWine(last')) =>
        /\ UNCHANGED <<wines, overrides, last_refresh>>
        /\ last'.status =
             IF InRange(last') \/ last'.pct.t = "null" THEN 404 ELSE 400
    ]_vars

\* a valid adjustment for a wine id beyond the table was answered 404
C4_Witness ==
  /\ last.op = "override" /\ last.status = 404
  /\ last.wine_id = Num(MaxWines + 1) /\ last.pct = Num(250)
  /\ DOMAIN wines = {1, 2}
  /\ DOMAIN overrides = {1}

---------------------------------------------------------------------------
(* Properties of the due-check *)

\* last_refresh is absent or at least 75 whole days before the check
Due(l) == last_refresh.t = "null" \/ l.now - last_refresh.v >= 2 * RefreshDays

\* every record of the batch is a row of the table ws
Applied(l, ws) ==
  \A k \in 1..Len(Items(l)) :
    \E i \in DOMAIN ws :
      /\ ws[i].external_id = Items(l)[k].external_id
      /\ LastOfKey(Items(l), k) => Holds(ws[i], Items(l)[k])

RanWhenDue ==
  /\ checks.left < checks.fired
  /\ \/ checks.before.t = "null"
     \/ checks.now - checks.before.v >= 2 * RefreshDays

---------------------------------------------------------------------------
(* The ranking *)

\* the effective score of wine i, in 1/10000: the base score raised or
\* lowered by the override's percentage, kept within 25 percent
EffectiveScore(i) ==
  LET pct == IF i \in DOMAIN overrides THEN overrides[i] ELSE 0
      kept == IF pct > 250 THEN 250 ELSE IF pct < -250 THEN -250 ELSE pct
  IN wines[i].vivino_rating.v * (1000 + kept)

Priced(r) == r.price.t = "number"

\* row a may stand right before row b
InOrder(a, b) ==
  \/ EffectiveScore(a.id) > EffectiveScore(b.id)
  \/ /\ EffectiveScore(a.id) = EffectiveScore(b.id)
     /\ \/ a.rating_count.v > b.rating_count.v
        \/ /\ a.rating_count.v = b.rating_count.v
           /\ Priced(b) => Priced(a) /\ a.price.v <= b.price.v

TieOnScoreAndReviews(a, b) ==
  /\ EffectiveScore(a.id) = EffectiveScore(b.id)
  /\ a.rating_count = b.rating_count

\* C5: the wines a query returns come by effective score, highest first,
\* then by review count, highest first, then by price, lowest first, the
\* wines without a price after those with one.
C5_RankOrder ==
  last.op = "query" =>
    \A k \in 1..(Len(last.rows) - 1) : InOrder(last.rows[k], last.rows[k + 1])

\* a result where a wine without a price follows the priced wine it ties
\* with, two priced wines that tie come cheapest first, and wines of one
\* score come by their reviews
C5_Witness ==
  /\ last.op = "query"
  /\ \E k \in 1..(Len(last.rows) - 1) :
       /\ TieOnScoreAndReviews(last.rows[k], last.rows[k + 1])
       /\ Priced(last.rows[k]) /\ ~Priced(last.rows[k + 1])
  /\ \E k \in 1..(Len(last.rows) - 1) :
       /\ TieOnScoreAndReviews(last.rows[k], last.rows[k + 1])
       /\ Priced(last.rows[k]) /\ Priced(last.rows[k + 1])
       /\ last.rows[k].price.v < last.rows[k + 1].price.v
  /\ \E k \in 1..(Len(last.rows) - 1) :
       /\ EffectiveScore(last.rows[k].id) = EffectiveScore(last.rows[k + 1].id)
       /\ last.rows[k].rating_count.v > last.rows[k + 1].rating_count.v
  /\ \E k \in 1..(Len(last.rows) - 1) :
       EffectiveScore(last.rows[k].id) > EffectiveScore(last.rows[k + 1].id)

AocGiven(q) == q.aoc.t = "string" /\ q.aoc.v # ""

\* C6: a query that gives no limit and does not ask for everything returns
\* at most 20 wines when it names an appellation and at most 100 when it
\* names none, however many wines match.
C6_DefaultWindow ==
  (last.op = "query" /\ last.query.limit.t = "undefined" /\ ~last.query.all) =>
    Len(last.rows) <= (IF AocGiven(last.query) THEN AocLimit ELSE GlobalLimit)

\* more than 100 wines in the store, and the query without a filter or a
\* limit returns 100 of them
C6_Witness ==
  /\ last.op = "query"
  /\ last.query = NoQuery
  /\ Cardinality(DOMAIN wines) > GlobalLimit
  /\ Len(last.rows) = GlobalLimit

Returned == {last.rows[k].id : k \in 1..Len(last.rows)}

WithinBounds(i, q) ==
  /\ q.minRating.t = "number" => EffectiveScore(i) >= q.minRating.v
  /\ q.maxRating.t = "number" => EffectiveScore(i) <= q.maxRating.v

BaseWithinBounds(i, q) ==
  /\ q.minRating.t = "number" => 1000 * wines[i].vivino_rating.v >= q.minRating.v
  /\ q.maxRating.t = "number" => 1000 * wines[i].vivino_rating.v <= q.maxRating.v

\* C7: the bounds of a query are on the effective score, both inclusive: every
\* wine returned has min <= effective score <= max, and a query that asks
\* for everything returns each wine of the appellation that has.
C7_BoundsOnEffectiveScore ==
  last.op = "query" =>
    /\ \A i \in Returned : WithinBounds(i, last.query)
    /\ last.query.all =>
         \A i \in DOMAIN wines :
           (/\ AocGiven(last.query) => wines[i].aoc = last.query.aoc
            /\ WithinBounds(i, last.query)) => i \in Returned

\* a query with a lower bound that returns a wine whose base score is below
\* the bound, returns a wine whose effective score is the bound itself, and
\* leaves out a wine whose base score is within the bounds
C7_Witness ==
  /\ last.op = "query"
  /\ last.query.minRating.t = "number"
  /\ \E i \in Returned : ~BaseWithinBounds(i, last.query)
  /\ \E i \in Returned : EffectiveScore(i) = last.query.minRating.v
  /\ \E i \in DOMAIN wines \ Returned : BaseWithinBounds(i, last.query)

---------------------------------------------------------------------------
(* The effective score *)

\* p kept within 25 percent, in tenths of a percent
Clamp(p) == IF p > 250 THEN 250 ELSE IF p < -250 THEN -250 ELSE p

\* the stored percentage of wine i, 0 without an override
StoredPct(i) == IF i \in DOMAIN overrides THEN overrides[i] ELSE 0

\* C12: the effective score that a query and the admin route return for a
\* wine is base score * (1 + clamp(p) / 100), p being the stored percentage
\* of the wine, or 0 without an override, and clamp keeping p within
\* [-25, 25]; both expressions of it in the code compute that for any p, so
\* that 26 gives what 25 gives; it is computed from the tables at each read
\* and no row of the wines table holds it.
C12_EffectiveScore ==
  /\ (last.op = "query" \/ (last.op = "override" /\ last.ok)) =>
       \A k \in 1..Len(last.rows) :
         LET r == last.rows[k]
         IN /\ r.vivino_rating = wines[r.id].vivino_rating
            /\ r.adjustment_pct = StoredPct(r.id)
            /\ r.adjusted_rating
                 = wines[r.id].vivino_rating.v * (1000 + Clamp(StoredPct(r.id)))
            /\ StoredPct(r.id) = 0 =>
                 r.adjusted_rating = 1000 * wines[r.id].vivino_rating.v
  /\ (last.op = "override" /\ last.ok) =>
       Len(last.rows) = 1 /\ last.rows[1].id = last.wine_id.v
  /\ last.op = "score" =>
       LET r == last.rows[1]
           p == IF r.adjustment_pct.t = "number" THEN r.adjustment_pct.v ELSE 0
       IN /\ r.adjusted_rating = r.vivino_rating.v * (1000 + Clamp(p))
          /\ r.sql = r.vivino_rating.v * (1000 + Clamp(p))
          /\ p = 260 => r.sql = r.vivino_rating.v * 1250
  /\ \A i \in DOMAIN wines : "adjusted_rating" \notin DOMAIN wines[i]

\* wine 1, imported with 3.0 and again with 4.2, has +10 percent: the query
\* returns 4.62 for it, and for wine 2, which has no override, its base
\* score
C12_Witness ==
  /\ last.op = "query" /\ Len(last.rows) = 2
  /\ overrides = (1 :> 100)
  /\ wines[1].vivino_rating = Num(42)
  /\ last.rows[1].id = 1 /\ last.rows[1].adjusted_rating = 46200
  /\ last.rows[2].id = 2 /\ last.rows[2].adjusted_rating = 30000

---------------------------------------------------------------------------
(* Malformed records *)

\* a record of the source whose score or review count is missing or is not
\* a number, under either of the names the source may give it
NoScore(w) == w.vivino_rating.t # "number" /\ w.rating.t # "number"
NoCount(w) == w.rating_count.t # "number" /\ w.reviews.t # "number"
Malformed(w) == NoScore(w) \/ NoCount(w)

\* the records of a batch that are not malformed, in their order
WellFormed(raw) == SelectSeq(raw, LAMBDA w : ~Malformed(w))

\* the operation of l ran an ingestion of its file
Ingesting(l) ==
  /\ l.op \in IngestOps /\ l.file.exists
  /\ l.op = "cron" => l.status = 200

\* what the ingestion of l would have handed to upsertWine without the
\* malformed records of its file, and the table that gives
ItemsWithout(l) == Items([l EXCEPT !.file.items = WellFormed(l.file.items)])
WithoutMalformed(l, ws) == Transaction(ws, ItemsWithout(l), l.now)

\* C13: a malformed record does not abort a batch: when records of a batch
\* have a missing or non-numeric score or review count and the batch is
\* accepted without them, the batch is ingested, each such record is a row
\* with 0 for the field, and the other records are rows as they are without
\* it.
C13_MalformedRecordCoerced ==
  [][ ( /\ Ingesting(last')
        /\ \E k \in 1..Len(last'.file.items) : Malformed(last'.file.items[k])
        /\ WithoutMalformed(last', wines).ok ) =>
        /\ last'.ok
        /\ \A k \in 1..Len(last'.file.items) :
             LET w == last'.file.items[k]
             IN Malformed(w) =>
                  \E i \in DOMAIN wines' :
                    /\ wines'[i].name = w.name
                    /\ NoScore(w) => wines'[i].vivino_rating = Num(0)
                    /\ NoCount(w) => wines'[i].rating_count = Num(0)
        /\ \A j \in DOMAIN WithoutMalformed(last', wines).ws :
             \E i \in DOMAIN wines' :
               Content(wines'[i]) = Content(WithoutMalformed(last', wines).ws[j])
    ]_vars

\* the same of the import, the refresh and the due-check, the seeding at
\* start-up left out
C13_MalformedRecordCoercedAfterStart ==
  [][ ( /\ Ingesting(last') /\ last'.op # "seed"
        /\ \E k \in 1..Len(last'.file.items) : Malformed(last'.file.items[k])
        /\ WithoutMalformed(last', wines).ok ) =>
        /\ last'.ok
        /\ \A k \in 1..Len(last'.file.items) :
             LET w == last'.file.items[k]
             IN Malformed(w) =>
                  \E i \in DOMAIN wines' :
                    /\ wines'[i].name = w.name
                    /\ NoScore(w) => wines'[i].vivino_rating = Num(0)
                    /\ NoCount(w) => wines'[i].rating_count = Num(0)
        /\ \A j \in DOMAIN WithoutMalformed(last', wines).ws :
             \E i \in DOMAIN wines' :
               Content(wines'[i]) = Content(WithoutMalformed(last', wines).ws[j])
    ]_vars

---------------------------------------------------------------------------
(* The order of wines that tie *)

\* C14: the ranking is a deterministic total order: a query evaluated again
\* on the same tables returns the same wines in the same order, wines that
\* tie on effective score, review count and price included.
C14_RankDeterministic ==
  [][ (last.op = "query" /\ last'.op = "query" /\ last'.query = last.query) =>
        last'.rows = last.rows
    ]_vars

---------------------------------------------------------------------------
(* Records without a price *)

NoPrice(w) == w.price.t \in {"null", "undefined"}

\* C15: a record whose price is missing or null is stored with no price by
\* every ingestion, the import and the refresh alike, and so with the same
\* price by both.
C15_NoPriceStoredAsNone ==
  [][ (Ingesting(last') /\ last'.ok) =>
        \A k \in 1..Len(last'.file.items) :
          (NoPrice(last'.file.items[k]) /\ LastOfKey(Items(last'), k)) =>
            \A i \in DOMAIN wines' :
              wines'[i].external_id = Items(last')[k].external_id =>
                wines'[i].price = Null
    ]_vars

---------------------------------------------------------------------------
(* The overrides table *)

\* C16: in every state, after any operations of the admin route, the import,
\* the refresh and the due-check: the overrides are one percentage a wine at
\* most, each of a wine of the wines table, and each within [-25, 25].
C16_OverridesWellFormed ==
  /\ overrides \in [DOMAIN overrides -> Int]
  /\ DOMAIN overrides \subseteq DOMAIN wines
  /\ \A i \in DOMAIN overrides : overrides[i] >= -250 /\ overrides[i] <= 250

\* both wines have an override, at the two ends of the range, and a refresh
\* has run since
C16_Witness ==
  /\ last.op = "refresh" /\ last.ok
  /\ DOMAIN wines = {1, 2}
  /\ overrides = (1 :> -250 @@ 2 :> 250)

====
